---------------------------- MODULE Spec2Model ----------------------------
(***************************************************************************)
(* A model of the two programs of the repository:                          *)
(*   sparse_matrix/code/src/SparseMatrix.py  (class SparseMatrix)          *)
(*   hw01/code/src/UniqueInt.py              (class UniqueInt)             *)
(*                                                                         *)
(* Text is modelled as it is in Python: a string is a sequence of          *)
(* one-character strings, a file is a sequence of lines (each without its  *)
(* terminating newline, which the code always strips).  A Python dict is a *)
(* function whose domain is its key set; the iteration order of a dict is  *)
(* not modelled (no result of the code depends on it).  Python integers    *)
(* are unbounded, so no arithmetic is reduced modulo a width.              *)
(***************************************************************************)
EXTENDS Integers, Sequences, FiniteSets, TLC

(***************************************************************************)
(* Bounds of the model.                                                    *)
(***************************************************************************)
MaxDim == 2        \* rows and cols given to a constructor are in 1..MaxDim
MaxVal == 1        \* values given to set_element are in -MaxVal..MaxVal
MaxOps == 3        \* method calls in one behaviour of Spec
MaxEntries == 2    \* stored entries per operand drawn by InitArith
BigVal == 12       \* a two-digit magnitude for the texts of the round trip
MaxLines == 3      \* lines of an input file of UniqueInt

(***************************************************************************)
(* Python's str methods and int(), on sequences of characters.             *)
(***************************************************************************)
\* A call either returns a value or raises ValueError.
Return(v) == [ok |-> TRUE, val |-> v]

ValueError == [ok |-> FALSE, val |-> "ValueError"]

Whitespace == {" "}

Digits == <<"0", "1", "2", "3", "4", "5", "6", "7", "8", "9">>

IsDigit(ch) == \E d \in 1..10 : Digits[d] = ch

DigitVal(ch) == (CHOOSE d \in 1..10 : Digits[d] = ch) - 1

RECURSIVE LStrip(_, _)
LStrip(s, chars) ==
    IF s # <<>> /\ Head(s) \in chars THEN LStrip(Tail(s), chars) ELSE s

RECURSIVE RStrip(_, _)
RStrip(s, chars) ==
    IF s # <<>> /\ s[Len(s)] \in chars
    THEN RStrip(SubSeq(s, 1, Len(s) - 1), chars)
    ELSE s

\* s.strip() is strip(s, Whitespace); s.strip('()') is strip(s, {"(", ")"})
strip(s, chars) == RStrip(LStrip(s, chars), chars)

StartsWith(s, p) == Len(s) >= Len(p) /\ SubSeq(s, 1, Len(p)) = p

RECURSIVE SplitFrom(_, _, _)
SplitFrom(s, sep, cur) ==
    IF s = <<>> THEN <<cur>>
    ELSE IF StartsWith(s, sep)
         THEN <<cur>> \o SplitFrom(SubSeq(s, Len(sep) + 1, Len(s)), sep, <<>>)
         ELSE SplitFrom(Tail(s), sep, Append(cur, Head(s)))

\* s.split(sep) for a non-empty separator
split(s, sep) == SplitFrom(s, sep, <<>>)

RECURSIVE DigitsValue(_, _)
DigitsValue(s, acc) ==
    IF s = <<>> THEN acc ELSE DigitsValue(Tail(s), 10 * acc + DigitVal(Head(s)))

\* int(s): surrounding whitespace, an optional sign, one or more digits;
\* anything else raises ValueError
int(s) ==
    LET t == strip(s, Whitespace)
        signed == t # <<>> /\ Head(t) \in {"+", "-"}
        u == IF signed THEN Tail(t) ELSE t
    IN  IF u = <<>> \/ \E i \in 1..Len(u) : ~IsDigit(u[i])
        THEN ValueError
        ELSE IF signed /\ Head(t) = "-"
             THEN Return(0 - DigitsValue(u, 0))
             ELSE Return(DigitsValue(u, 0))

RECURSIVE NatStr(_)
NatStr(n) ==
    IF n < 10 THEN <<Digits[n + 1]>>
    ELSE Append(NatStr(n \div 10), Digits[(n % 10) + 1])

\* str(n), and {n} in an f-string, for an integer n
str(n) == IF n < 0 THEN <<"-">> \o NatStr(0 - n) ELSE NatStr(n)

(***************************************************************************)
(* SparseMatrix: the dict self.matrix and the methods that read and write  *)
(* it.                                                                     *)
(***************************************************************************)
EmptyDict == [k \in {} |-> 0]

DictSet(d, k, v) == [x \in (DOMAIN d) \cup {k} |-> IF x = k THEN v ELSE d[x]]

DictDel(d, k) == [x \in (DOMAIN d) \ {k} |-> d[x]]

get_element(d, row, col) ==
    IF <<row, col>> \in DOMAIN d THEN d[<<row, col>>] ELSE 0

set_element(d, row, col, value) ==
    IF value # 0 THEN DictSet(d, <<row, col>>, value)
    ELSE IF <<row, col>> \in DOMAIN d THEN DictDel(d, <<row, col>>)
    ELSE d

(***************************************************************************)
(* The text format: write_matrix_to_file and read_matrix_from_file.        *)
(***************************************************************************)
RowsKey == <<"r", "o", "w", "s", "=">>
ColsKey == <<"c", "o", "l", "s", "=">>

\* f"({row}, {col}, {value})"
FormatEntryNoSpace(row, col, value) ==
    <<"(">> \o str(row) \o <<",">> \o str(col) \o <<",">> \o str(value) \o <<")">>

FormatEntry(row, col, value) ==
    <<"(">> \o str(row) \o <<",", " ">> \o str(col) \o <<",", " ">>
            \o str(value) \o <<")">>

\* the order of sorted(self.matrix.items()): by (row, col)
KeyLess(a, b) == a[1] < b[1] \/ (a[1] = b[1] /\ a[2] < b[2])

RECURSIVE SortedKeys(_)
SortedKeys(keys) ==
    IF keys = {} THEN <<>>
    ELSE LET k == CHOOSE x \in keys : \A y \in keys \ {x} : KeyLess(x, y)
         IN  <<k>> \o SortedKeys(keys \ {k})

write_matrix_to_file(rows, cols, d) ==
    LET ks == SortedKeys(DOMAIN d)
    IN  <<RowsKey \o str(rows), ColsKey \o str(cols)>>
        \o [i \in 1..Len(ks) |-> FormatEntry(ks[i][1], ks[i][2], d[ks[i]])]

\* file.readline(): the next line, or '' at the end of the file
ReadLine(file, i) == IF i <= Len(file) THEN file[i] ELSE <<>>

\* int(file.readline().strip().split('=')[1])
ParseDim(line) ==
    LET parts == split(strip(line, Whitespace), <<"=">>)
    IN  IF Len(parts) < 2 THEN ValueError ELSE int(parts[2])

\* row, col, value = map(int, line.strip('()').split(', '))
ParseEntry(line) ==
    LET fields == split(strip(line, {"(", ")"}), <<",", " ">>)
    IN  IF Len(fields) # 3 THEN ValueError
        ELSE IF \E i \in 1..3 : ~int(fields[i]).ok THEN ValueError
        ELSE Return(<<int(fields[1]).val, int(fields[2]).val, int(fields[3]).val>>)

\* the loop "for line in file" over the lines after the two header lines
RECURSIVE ReadEntries(_, _, _)
ReadEntries(file, i, matrix) ==
    IF i > Len(file) THEN Return(matrix)
    ELSE LET line == strip(file[i], Whitespace)
         IN  IF line = <<>> THEN ReadEntries(file, i + 1, matrix)
             ELSE LET e == ParseEntry(line)
                  IN  IF ~e.ok THEN ValueError
                      ELSE ReadEntries(file, i + 1,
                               DictSet(matrix, <<e.val[1], e.val[2]>>, e.val[3]))

\* raises ValueError or returns the triple (rows, cols, matrix), here a record
read_matrix_from_file(file) ==
    LET rows == ParseDim(ReadLine(file, 1))
        cols == ParseDim(ReadLine(file, 2))
    IN  IF ~rows.ok \/ ~cols.ok THEN ValueError
        ELSE LET matrix == ReadEntries(file, 3, EmptyDict)
             IN  IF ~matrix.ok THEN ValueError
                 ELSE Return([rows |-> rows.val, cols |-> cols.val,
                              matrix |-> matrix.val])

(***************************************************************************)
(* The state.  The program of SparseMatrix.py has three variables,         *)
(* matrix1, matrix2 and result (lines 189-203).  An object is a record     *)
(* (rows, cols, matrix) whose matrix field is a reference into the heap of *)
(* dicts, so that two objects sharing one dict can be told from two        *)
(* objects with equal dicts; reference 0 is an unbound variable.           *)
(***************************************************************************)
VARIABLES
    objs,      \* variable name -> the object it is bound to
    heap,      \* dict reference -> the dict
    outfile,   \* the text written by write_matrix_to_file, <<>> before
    last,      \* the last call: its name, its operands and how it ended
    nops,      \* calls made so far
    \* UniqueInt.processFile
    input_file,        \* the lines of the input file
    pos,               \* the line the input stream is at
    unique_integers,   \* the list findUniqueIntegers builds
    current_size,      \* its counter of the list's elements
    pc,                \* where processFile is: read, sort, write, done
    output_file        \* the lines written to the output file

mvars == <<objs, heap, outfile, last, nops>>

uvars == <<input_file, pos, unique_integers, current_size, pc, output_file>>

vars == <<mvars, uvars>>

Slots == {"matrix1", "matrix2", "result"}

DictIds == 1..(Cardinality(Slots) + 1)

Unbound == [rows |-> 0, cols |-> 0, matrix |-> 0]

Bound(s) == objs[s].matrix # 0

\* the dict of the object a variable is bound to
DictOf(h, o, s) == h[o[s].matrix]

\* a dict no object refers to: the {} a constructor creates (lines 31, 60)
FreshDict(o) ==
    CHOOSE id \in DictIds :
        /\ \A s \in Slots : o[s].matrix # id
        /\ \A j \in DictIds : (\A s \in Slots : o[s].matrix # j) => id <= j

\* dicts no variable reaches any more are dropped
Collect(h, o) ==
    [id \in DictIds |-> IF \E s \in Slots : o[s].matrix = id
                        THEN h[id] ELSE EmptyDict]

Call(op, self, other, status) ==
    [op |-> op, self |-> self, other |-> other, status |-> status]

(***************************************************************************)
(* add, subtract and multiply on the heap: each creates a result object    *)
(* with a dict of its own and fills it through set_element.  They return   *)
(* the new heap and the reference of the result's dict.                    *)
(***************************************************************************)
\* for (row, col), value in self.matrix.items(): result.set_element(...)
RECURSIVE CopyLoop(_, _, _, _)
CopyLoop(h, rid, sid, keys) ==
    IF keys = {} THEN h
    ELSE LET k == CHOOSE x \in keys : TRUE
         IN  CopyLoop([h EXCEPT ![rid] = set_element(h[rid], k[1], k[2],
                                              get_element(h[sid], k[1], k[2]))],
                      rid, sid, keys \ {k})

\* for (row, col), value in other.matrix.items():
\*     result.set_element(row, col, result.get_element(row, col) +/- value)
RECURSIVE CombineLoop(_, _, _, _, _)
CombineLoop(h, rid, oid, keys, sign) ==
    IF keys = {} THEN h
    ELSE LET k == CHOOSE x \in keys : TRUE
             v == get_element(h[rid], k[1], k[2])
                  + sign * get_element(h[oid], k[1], k[2])
         IN  CombineLoop([h EXCEPT ![rid] = set_element(h[rid], k[1], k[2], v)],
                         rid, oid, keys \ {k}, sign)

add_shared(h, o, self, other) ==
    LET rid == o[self].matrix
    IN  [heap |-> CombineLoop(h, rid, o[other].matrix,
                              DOMAIN h[o[other].matrix], 1),
         matrix |-> rid]

add_overwrite(h, o, self, other) ==
    LET rid == FreshDict(o)
        h0 == [h EXCEPT ![rid] = EmptyDict]
        h1 == CopyLoop(h0, rid, o[self].matrix, DOMAIN h0[o[self].matrix])
    IN  [heap |-> CopyLoop(h1, rid, o[other].matrix, DOMAIN h1[o[other].matrix]),
         matrix |-> rid]

add(h, o, self, other) ==
    LET rid == FreshDict(o)
        h0 == [h EXCEPT ![rid] = EmptyDict]
        h1 == CopyLoop(h0, rid, o[self].matrix, DOMAIN h0[o[self].matrix])
    IN  [heap |-> CombineLoop(h1, rid, o[other].matrix,
                              DOMAIN h1[o[other].matrix], 1),
         matrix |-> rid]

subtract_reversed(h, o, self, other) ==
    LET rid == FreshDict(o)
        h0 == [h EXCEPT ![rid] = EmptyDict]
        h1 == CopyLoop(h0, rid, o[other].matrix, DOMAIN h0[o[other].matrix])
    IN  [heap |-> CombineLoop(h1, rid, o[self].matrix,
                              DOMAIN h1[o[self].matrix], -1),
         matrix |-> rid]

subtract(h, o, self, other) ==
    LET rid == FreshDict(o)
        h0 == [h EXCEPT ![rid] = EmptyDict]
        h1 == CopyLoop(h0, rid, o[self].matrix, DOMAIN h0[o[self].matrix])
    IN  [heap |-> CombineLoop(h1, rid, o[other].matrix,
                              DOMAIN h1[o[other].matrix], -1),
         matrix |-> rid]

\* sum(self.get_element(i, k) * other.get_element(k, j) for k in range(n)),
\* summed from k = 0 upwards
RECURSIVE DotSum(_, _, _, _, _, _)
DotSum(sd, od, i, j, k, n) ==
    IF k >= n THEN 0
    ELSE get_element(sd, i, k) * get_element(od, k, j)
         + DotSum(sd, od, i, j, k + 1, n)

\* the loops over i in range(self.rows) and j in range(other.cols), as one
\* loop over the cell number c = i * other.cols + j
RECURSIVE MultiplyLoop(_, _, _, _, _, _, _, _)
MultiplyLoop(h, rid, sid, oid, c, nrows, ncols, n) ==
    IF c >= nrows * ncols THEN h
    ELSE LET i == c \div ncols
             j == c % ncols
             value == DotSum(h[sid], h[oid], i, j, 0, n)
         IN  MultiplyLoop(IF value # 0
                          THEN [h EXCEPT ![rid] = set_element(h[rid], i, j, value)]
                          ELSE h,
                          rid, sid, oid, c + 1, nrows, ncols, n)

multiply_rows(h, o, self, other) ==
    LET rid == FreshDict(o)
        h0 == [h EXCEPT ![rid] = EmptyDict]
    IN  [heap |-> MultiplyLoop(h0, rid, o[self].matrix, o[other].matrix, 0,
                               o[self].rows, o[other].cols, o[self].rows),
         matrix |-> rid]

multiply(h, o, self, other) ==
    LET rid == FreshDict(o)
        h0 == [h EXCEPT ![rid] = EmptyDict]
    IN  [heap |-> MultiplyLoop(h0, rid, o[self].matrix, o[other].matrix, 0,
                               o[self].rows, o[other].cols, o[self].cols),
         matrix |-> rid]

(***************************************************************************)
(* The inputs of the calls.                                                *)
(***************************************************************************)
Dims == 1..MaxDim

\* indices given to set_element and written in input files: MaxDim itself is
\* outside every matrix
Indices == 0..MaxDim

Values == (0 - MaxVal)..MaxVal

Header(rows, cols) == <<RowsKey \o str(rows), ColsKey \o str(cols)>>

\* well-formed entry lines, a blank line, and the malformed lines of the
\* specification's section 8: two fields, and no space after the commas
InputLines ==
    {FormatEntry(r, c, v) : r \in {0, MaxDim}, c \in {0}, v \in Values}
    \cup {<<>>, <<"(", "1", ",", " ", "2", ")">>,
          <<"(", "0", ",", "0", ",", "1", ")">>}

\* input files of one line after the header, and one without its cols= line
InputFiles ==
    {Header(r, r) \o <<l>> : r \in Dims, l \in InputLines}
    \cup {<<RowsKey \o str(1)>>}

\* what read_matrix_from_file makes of each input file
InputRead == [f \in InputFiles |-> read_matrix_from_file(f)]

\* the variables a constructor call is assigned to (lines 189-190)
Operands == {"matrix1", "matrix2"}

(***************************************************************************)
(* The calls.                                                              *)
(***************************************************************************)
\* the guards of add and subtract (lines 111, 134) and of multiply (line 158)
SameRows(self, other) == self.rows = other.rows

SameDims(self, other) == self.rows = other.rows /\ self.cols = other.cols

InnerDims(self, other) == self.cols = other.rows

Bind(o, s, rows, cols, id) ==
    [o EXCEPT ![s] = [rows |-> rows, cols |-> cols, matrix |-> id]]

\* s = SparseMatrix(rows=rows, cols=cols)
New(s, rows, cols) ==
    /\ nops < MaxOps
    /\ LET id == FreshDict(objs)
           o2 == Bind(objs, s, rows, cols, id)
       IN  /\ objs' = o2
           /\ heap' = Collect([heap EXCEPT ![id] = EmptyDict], o2)
    /\ last' = Call("new", s, s, "ok")
    /\ nops' = nops + 1
    /\ UNCHANGED uvars
    /\ UNCHANGED outfile

\* s = SparseMatrix(path), where r is what read_matrix_from_file(path) returns
\* or raises (line 27)
Load(s, r) ==
    /\ nops < MaxOps
    /\ IF r.ok
       THEN LET id == FreshDict(objs)
                o2 == Bind(objs, s, r.val.rows, r.val.cols, id)
            IN  /\ objs' = o2
                /\ heap' = Collect([heap EXCEPT ![id] = r.val.matrix], o2)
                /\ last' = Call("load", s, s, "ok")
       ELSE /\ UNCHANGED <<objs, heap>>
            /\ last' = Call("load", s, s, "ValueError")
    /\ nops' = nops + 1
    /\ UNCHANGED uvars
    /\ UNCHANGED outfile

\* objs[s].set_element(row, col, value)
SetElement(s, row, col, value) ==
    /\ nops < MaxOps
    /\ Bound(s)
    /\ heap' = [heap EXCEPT ![objs[s].matrix] = set_element(@, row, col, value)]
    /\ last' = Call("set_element", s, s, "ok")
    /\ nops' = nops + 1
    /\ UNCHANGED uvars
    /\ UNCHANGED <<objs, outfile>>

\* result = objs[a].add(objs[b])
Add(a, b) ==
    /\ nops < MaxOps
    /\ Bound(a) /\ Bound(b)
    /\ IF ~SameDims(objs[a], objs[b])
       THEN /\ UNCHANGED <<objs, heap>>
            /\ last' = Call("add", a, b, "ValueError")
       ELSE LET r == add(heap, objs, a, b)
                o2 == Bind(objs, "result", objs[a].rows, objs[a].cols, r.matrix)
            IN  /\ objs' = o2
                /\ heap' = Collect(r.heap, o2)
                /\ last' = Call("add", a, b, "ok")
    /\ nops' = nops + 1
    /\ UNCHANGED uvars
    /\ UNCHANGED outfile

\* result = objs[a].subtract(objs[b])
Subtract(a, b) ==
    /\ nops < MaxOps
    /\ Bound(a) /\ Bound(b)
    /\ IF ~SameDims(objs[a], objs[b])
       THEN /\ UNCHANGED <<objs, heap>>
            /\ last' = Call("subtract", a, b, "ValueError")
       ELSE LET r == subtract(heap, objs, a, b)
                o2 == Bind(objs, "result", objs[a].rows, objs[a].cols, r.matrix)
            IN  /\ objs' = o2
                /\ heap' = Collect(r.heap, o2)
                /\ last' = Call("subtract", a, b, "ok")
    /\ nops' = nops + 1
    /\ UNCHANGED uvars
    /\ UNCHANGED outfile

\* result = objs[a].multiply(objs[b])
Multiply(a, b) ==
    /\ nops < MaxOps
    /\ Bound(a) /\ Bound(b)
    /\ IF ~InnerDims(objs[a], objs[b])
       THEN /\ UNCHANGED <<objs, heap>>
            /\ last' = Call("multiply", a, b, "ValueError")
       ELSE LET r == multiply(heap, objs, a, b)
                o2 == Bind(objs, "result", objs[a].rows, objs[b].cols, r.matrix)
            IN  /\ objs' = o2
                /\ heap' = Collect(r.heap, o2)
                /\ last' = Call("multiply", a, b, "ok")
    /\ nops' = nops + 1
    /\ UNCHANGED uvars
    /\ UNCHANGED outfile

\* objs[s].write_matrix_to_file(path)
Write(s) ==
    /\ nops < MaxOps
    /\ Bound(s)
    /\ outfile' = write_matrix_to_file(objs[s].rows, objs[s].cols,
                                       DictOf(heap, objs, s))
    /\ last' = Call("write", s, s, "ok")
    /\ nops' = nops + 1
    /\ UNCHANGED uvars
    /\ UNCHANGED <<objs, heap>>

\* s = SparseMatrix(path) for the file written last
LoadWritten(s) ==
    /\ outfile # <<>>
    /\ Load(s, read_matrix_from_file(outfile))

MInit ==
    /\ objs = [s \in Slots |-> Unbound]
    /\ heap = [id \in DictIds |-> EmptyDict]
    /\ outfile = <<>>
    /\ last = Call("none", "matrix1", "matrix1", "ok")
    /\ nops = 0

\* processFile is not running
UIdle ==
    /\ input_file = <<>>
    /\ pos = 1
    /\ unique_integers = <<>>
    /\ current_size = 0
    /\ pc = "idle"
    /\ output_file = <<>>

Init == MInit /\ UIdle

Next ==
    \/ \E s \in Operands, r \in Dims, c \in Dims : New(s, r, c)
    \/ \E s \in Operands, f \in InputFiles : Load(s, InputRead[f])
    \/ \E s \in Operands : LoadWritten(s)
    \/ \E s \in Slots, r \in Indices, c \in Indices, v \in Values :
           SetElement(s, r, c, v)
    \/ \E a \in Slots, b \in Slots : Add(a, b)
    \/ \E a \in Slots, b \in Slots : Subtract(a, b)
    \/ \E a \in Slots, b \in Slots : Multiply(a, b)
    \/ \E s \in Slots : Write(s)

Spec == Init /\ [][Next]_vars

(***************************************************************************)
(* The arithmetic on operands drawn from a bounded set.  The initial       *)
(* states are the states after matrix1 and matrix2 were each constructed   *)
(* from a file of at most MaxEntries entry lines (lines 189-190): any      *)
(* indices and values can be written in a file, a stored 0 included, and   *)
(* read_matrix_from_file checks neither.  One call remains.                *)
(***************************************************************************)
Cells == (0..(MaxDim - 1)) \X (0..(MaxDim - 1))

DictsOver(cells, values, n) ==
    UNION {[K -> values] : K \in {S \in SUBSET cells : Cardinality(S) <= n}}

OperandDicts == DictsOver(Cells, Values, MaxEntries)

\* matrix1 and matrix2 bound to objects of the given rows, cols and dicts
TwoOperands(r1, c1, d1, r2, c2, d2) ==
    /\ objs = [s \in Slots |->
                  IF s = "matrix1" THEN [rows |-> r1, cols |-> c1, matrix |-> 1]
                  ELSE IF s = "matrix2" THEN [rows |-> r2, cols |-> c2, matrix |-> 2]
                  ELSE Unbound]
    /\ heap = [id \in DictIds |->
                  IF id = 1 THEN d1 ELSE IF id = 2 THEN d2 ELSE EmptyDict]
    /\ outfile = <<>>
    /\ last = Call("none", "matrix1", "matrix1", "ok")

\* matrix1 alone bound
OneOperand(r1, c1, d1) ==
    /\ objs = [s \in Slots |->
                  IF s = "matrix1" THEN [rows |-> r1, cols |-> c1, matrix |-> 1]
                  ELSE Unbound]
    /\ heap = [id \in DictIds |-> IF id = 1 THEN d1 ELSE EmptyDict]
    /\ outfile = <<>>
    /\ last = Call("none", "matrix1", "matrix1", "ok")

InitArith ==
    /\ \E r1 \in Dims, c1 \in Dims, r2 \in Dims, c2 \in Dims :
           \E d1 \in OperandDicts, d2 \in OperandDicts :
               TwoOperands(r1, c1, d1, r2, c2, d2)
    /\ nops = MaxOps - 1
    /\ UIdle

\* matrix1 op matrix2 as in lines 199-203, and matrix1 op matrix1
NextArith ==
    \/ \E b \in Operands : Add("matrix1", b)
    \/ \E b \in Operands : Subtract("matrix1", b)
    \/ \E b \in Operands : Multiply("matrix1", b)

SpecArith == InitArith /\ [][NextArith]_vars

(***************************************************************************)
(* The round trip through the text format, for matrix1 drawn from the      *)
(* valid matrices (indices within the dimensions, no stored 0) whose       *)
(* numbers have one or two digits.  Two calls remain: matrix1 is written   *)
(* and the text is loaded as matrix2.                                      *)
(***************************************************************************)
TextDims == {1, MaxDim, BigVal}

TextValues == {0 - BigVal, -1, 1, BigVal}

TextCells(rows, cols) ==
    {rc \in {0, MaxDim - 1, BigVal - 1} \X {0, MaxDim - 1, BigVal - 1} :
        rc[1] < rows /\ rc[2] < cols}

InitRoundTrip ==
    /\ \E r1 \in TextDims, c1 \in TextDims :
           \E d1 \in DictsOver(TextCells(r1, c1), TextValues, MaxEntries) :
               OneOperand(r1, c1, d1)
    /\ nops = MaxOps - 2
    /\ UIdle

NextRoundTrip ==
    \/ Write("matrix1")
    \/ LoadWritten("matrix2")

SpecRoundTrip == InitRoundTrip /\ [][NextRoundTrip]_vars

(***************************************************************************)
(* UniqueInt (hw01/code/src/UniqueInt.py).                                 *)
(***************************************************************************)
None == [ok |-> FALSE, val |-> "None"]

\* returns the integer of the next line, or None; the stream moves on by one
\* line either way
readNextItemFromFile(file, i) ==
    LET line == strip(ReadLine(file, i), Whitespace)
    IN  IF line # <<>>
        THEN IF int(line).ok THEN int(line) ELSE None
        ELSE None

contains(lst, size, item) == \E i \in 0..(size - 1) : lst[i + 1] = item

insert(lst, index, item) ==
    [i \in 1..(Len(lst) + 1) |->
        IF i - 1 < index THEN lst[i]
        ELSE IF i - 1 = index THEN item
        ELSE lst[i - 1]]

Swap(l, j) == [l EXCEPT ![j + 1] = l[j + 2], ![j + 2] = l[j + 1]]

\* for j in range(0, n - i - 1)
RECURSIVE SortInner(_, _, _)
SortInner(l, j, limit) ==
    IF j >= limit THEN l
    ELSE SortInner(IF l[j + 1] > l[j + 2] THEN Swap(l, j) ELSE l, j + 1, limit)

\* for i in range(n)
RECURSIVE SortOuter(_, _, _)
SortOuter(l, i, n) ==
    IF i >= n THEN l ELSE SortOuter(SortInner(l, 0, n - i - 1), i + 1, n)

sortIntegers(integers) == SortOuter(integers, 0, Len(integers))

writeUniqueIntegers(integers) == [i \in 1..Len(integers) |-> str(integers[i])]

\* the lines of the input files: integers, a blank line, a line that is no
\* integer
UniqueLines ==
    {str(v) : v \in Values \cup {BigVal}} \cup {<<>>, <<"a">>}

RECURSIVE FilesUpTo(_)
FilesUpTo(n) ==
    IF n = 0 THEN {<<>>}
    ELSE LET shorter == FilesUpTo(n - 1)
         IN  shorter \cup {Append(f, l) : f \in shorter, l \in UniqueLines}

UInit ==
    /\ input_file \in FilesUpTo(MaxLines)
    /\ pos = 1
    /\ unique_integers = <<>>
    /\ current_size = 0
    /\ pc = "read"
    /\ output_file = <<>>

\* one turn of the loop of findUniqueIntegers (lines 28-34)
ReadItem ==
    /\ pc = "read"
    /\ LET integer == readNextItemFromFile(input_file, pos)
       IN  IF ~integer.ok
           THEN /\ pc' = "sort"
                /\ UNCHANGED <<unique_integers, current_size>>
           ELSE /\ pc' = "read"
                /\ IF ~contains(unique_integers, current_size, integer.val)
                   THEN /\ unique_integers' =
                               insert(unique_integers, current_size, integer.val)
                        /\ current_size' = current_size + 1
                   ELSE UNCHANGED <<unique_integers, current_size>>
    /\ pos' = IF pos <= Len(input_file) THEN pos + 1 ELSE pos
    /\ UNCHANGED <<input_file, output_file>>
    /\ UNCHANGED mvars

\* return UniqueInt.sortIntegers(unique_integers) (line 35)
Sort ==
    /\ pc = "sort"
    /\ unique_integers' = sortIntegers(unique_integers)
    /\ pc' = "write"
    /\ UNCHANGED <<input_file, pos, current_size, output_file>>
    /\ UNCHANGED mvars

\* UniqueInt.writeUniqueIntegers(output_file_path, unique_integers) (line 12)
WriteOutput ==
    /\ pc = "write"
    /\ output_file' = writeUniqueIntegers(unique_integers)
    /\ pc' = "done"
    /\ UNCHANGED <<input_file, pos, unique_integers, current_size>>
    /\ UNCHANGED mvars

InitUnique == MInit /\ UInit

NextUnique ==
    \/ ReadItem
    \/ Sort
    \/ WriteOutput

SpecUnique == InitUnique /\ [][NextUnique]_vars

(***************************************************************************)
(* The properties.                                                         *)
(***************************************************************************)
\* the step just taken was a call of op
Called(op) == nops' = nops + 1 /\ last'.op = op

\* the value a dict describes at a coordinate, read without get_element
Dense(d, i, j) == IF <<i, j>> \in DOMAIN d THEN d[<<i, j>>] ELSE 0

\* the coordinates a statement about "every coordinate" is checked at
Coords(A, B, R) ==
    (Indices \X Indices) \cup DOMAIN A \cup DOMAIN B \cup DOMAIN R

SelfDict == DictOf(heap, objs, last.self)

OtherDict == DictOf(heap, objs, last.other)

ResultDict == DictOf(heap, objs, "result")

\* C1: no stored entry of a matrix is 0, and get_element at a coordinate
\* that is not stored returns 0.
C1_SparsityInvariant ==
    \A s \in Slots :
        Bound(s) =>
            /\ \A k \in DOMAIN DictOf(heap, objs, s) : DictOf(heap, objs, s)[k] # 0
            /\ \A rc \in Indices \X Indices :
                   rc \notin DOMAIN DictOf(heap, objs, s)
                       => get_element(DictOf(heap, objs, s), rc[1], rc[2]) = 0

\* C2: for A and B of equal rows and cols, A.add(B) returns a matrix of the
\* same rows and cols whose value at every coordinate is the sum of the
\* operands' values there, and no coordinate whose sum is 0 is stored.
C2_AddIsSum ==
    [][(/\ Called("add")
        /\ objs[last'.self].rows = objs[last'.other].rows
        /\ objs[last'.self].cols = objs[last'.other].cols)
       => LET A == DictOf(heap, objs, last'.self)
              B == DictOf(heap, objs, last'.other)
              R == DictOf(heap', objs', "result")
          IN  /\ last'.status = "ok"
              /\ objs'["result"].rows = objs[last'.self].rows
              /\ objs'["result"].cols = objs[last'.self].cols
              /\ \A rc \in Coords(A, B, R) :
                     /\ Dense(R, rc[1], rc[2])
                            = Dense(A, rc[1], rc[2]) + Dense(B, rc[1], rc[2])
                     /\ Dense(A, rc[1], rc[2]) + Dense(B, rc[1], rc[2]) = 0
                            => rc \notin DOMAIN R]_vars

\* an add of two different operands that has a coordinate where two non-zero
\* values cancel, one where two values add up, and one only `other` stores
C2_Witness ==
    /\ last.op = "add" /\ last.status = "ok" /\ last.self # last.other
    /\ \E rc \in DOMAIN SelfDict \cap DOMAIN OtherDict :
           SelfDict[rc] # 0 /\ SelfDict[rc] + OtherDict[rc] = 0
    /\ \E rc \in DOMAIN OtherDict \ DOMAIN SelfDict : ResultDict[rc] = OtherDict[rc]
    /\ \E rc \in DOMAIN SelfDict \ DOMAIN OtherDict : ResultDict[rc] = SelfDict[rc]

\* C3: for A and B of equal rows and cols, A.subtract(B) returns a matrix of
\* the same rows and cols whose value at every coordinate is A's value minus
\* B's, zero differences are not stored, and M.subtract(M) stores nothing.
C3_SubtractIsDifference ==
    [][(/\ Called("subtract")
        /\ objs[last'.self].rows = objs[last'.other].rows
        /\ objs[last'.self].cols = objs[last'.other].cols)
       => LET A == DictOf(heap, objs, last'.self)
              B == DictOf(heap, objs, last'.other)
              R == DictOf(heap', objs', "result")
          IN  /\ last'.status = "ok"
              /\ objs'["result"].rows = objs[last'.self].rows
              /\ objs'["result"].cols = objs[last'.self].cols
              /\ \A rc \in Coords(A, B, R) :
                     /\ Dense(R, rc[1], rc[2])
                            = Dense(A, rc[1], rc[2]) - Dense(B, rc[1], rc[2])
                     /\ Dense(A, rc[1], rc[2]) - Dense(B, rc[1], rc[2]) = 0
                            => rc \notin DOMAIN R
              /\ last'.self = last'.other => R = EmptyDict]_vars

\* a subtract of two different operands where only `other` stores a value at
\* some coordinate, so that the result there is its negation
C3_Witness ==
    /\ last.op = "subtract" /\ last.status = "ok" /\ last.self # last.other
    /\ \E rc \in DOMAIN OtherDict \ DOMAIN SelfDict :
           OtherDict[rc] # 0 /\ ResultDict[rc] = 0 - OtherDict[rc]
    /\ \E rc \in DOMAIN SelfDict \cap DOMAIN OtherDict :
           SelfDict[rc] # 0 /\ SelfDict[rc] = OtherDict[rc]

\* the dot product of row i of A and column j of B over k in [0, n), by the
\* dense values
RECURSIVE DenseDot(_, _, _, _, _)
DenseDot(A, B, i, j, n) ==
    IF n = 0 THEN 0
    ELSE DenseDot(A, B, i, j, n - 1) + Dense(A, i, n - 1) * Dense(B, n - 1, j)

\* C4: for A.cols = B.rows, A.multiply(B) returns a matrix of A.rows rows and
\* B.cols cols whose value at every (i, j) within them is the dense dot
\* product over k in [0, A.cols), and only non-zero results are stored.
C4_MultiplyIsDotProduct ==
    [][(/\ Called("multiply")
        /\ objs[last'.self].cols = objs[last'.other].rows)
       => LET A == DictOf(heap, objs, last'.self)
              B == DictOf(heap, objs, last'.other)
              R == DictOf(heap', objs', "result")
              nrows == objs[last'.self].rows
              ncols == objs[last'.other].cols
          IN  /\ last'.status = "ok"
              /\ objs'["result"].rows = nrows
              /\ objs'["result"].cols = ncols
              /\ \A i \in 0..(nrows - 1), j \in 0..(ncols - 1) :
                     Dense(R, i, j) = DenseDot(A, B, i, j, objs[last'.self].cols)
              /\ \A rc \in DOMAIN R :
                     /\ R[rc] # 0
                     /\ rc[1] \in 0..(nrows - 1) /\ rc[2] \in 0..(ncols - 1)]_vars

\* a multiply by a matrix that is not square, with a cell of the result
\* whose dot product has two non-zero products that cancel
C4_Witness ==
    /\ last.op = "multiply" /\ last.status = "ok"
    /\ objs[last.self].rows # objs[last.self].cols
    /\ \E i \in 0..(objs[last.self].rows - 1), j \in 0..(objs[last.other].cols - 1) :
           /\ \E k1 \in 0..(objs[last.self].cols - 1),
                 k2 \in 0..(objs[last.self].cols - 1) :
                  /\ k1 # k2
                  /\ Dense(SelfDict, i, k1) * Dense(OtherDict, k1, j) # 0
                  /\ Dense(SelfDict, i, k2) * Dense(OtherDict, k2, j) # 0
           /\ DenseDot(SelfDict, OtherDict, i, j, objs[last.self].cols) = 0
           /\ <<i, j>> \notin DOMAIN ResultDict

\* C5: add and subtract of operands whose rows or cols differ, and multiply
\* with self.cols # other.rows, raise ValueError, bind no result, and leave
\* every object as it was.
C5_MismatchFailsAtomically ==
    [][(\/ /\ Called("add") \/ Called("subtract")
           /\ \/ objs[last'.self].rows # objs[last'.other].rows
              \/ objs[last'.self].cols # objs[last'.other].cols
        \/ /\ Called("multiply")
           /\ objs[last'.self].cols # objs[last'.other].rows)
       => /\ last'.status = "ValueError"
          /\ objs' = objs
          /\ heap' = heap]_vars

\* an add that failed on operands of equal rows and different cols, both
\* with stored entries
C5_Witness ==
    /\ last.op = "add" /\ last.status = "ValueError"
    /\ objs[last.self].rows = objs[last.other].rows
    /\ SelfDict # EmptyDict /\ OtherDict # EmptyDict

\* C6: writing a valid matrix with write_matrix_to_file and loading the text
\* with read_matrix_from_file gives a matrix of the same rows, cols and
\* entries.
C6_RoundTrip ==
    last.op = "load"
        => /\ last.status = "ok"
           /\ objs["matrix2"].rows = objs["matrix1"].rows
           /\ objs["matrix2"].cols = objs["matrix1"].cols
           /\ DictOf(heap, objs, "matrix2") = DictOf(heap, objs, "matrix1")

\* a matrix with a negative two-digit value and a two-digit index, written
\* and loaded
C6_Witness ==
    /\ last.op = "load" /\ last.status = "ok"
    /\ \E rc \in DOMAIN DictOf(heap, objs, "matrix1") :
           rc[2] >= 10 /\ DictOf(heap, objs, "matrix1")[rc] <= -10
    /\ Cardinality(DOMAIN DictOf(heap, objs, "matrix2")) = MaxEntries

\* C6, its other case: the matrix with no entries, written and loaded
C6_WitnessEmpty ==
    /\ last.op = "load" /\ last.status = "ok"
    /\ DictOf(heap, objs, "matrix1") = EmptyDict

\* C7: M.add(Z), for Z the matrix of M's rows and cols with no entries, is
\* equal to M: the same rows, cols and stored entries.
C7_AdditiveIdentity ==
    [][(/\ Called("add")
        /\ last'.status = "ok"
        /\ DictOf(heap, objs, last'.other) = EmptyDict)
       => /\ objs'["result"].rows = objs[last'.self].rows
          /\ objs'["result"].cols = objs[last'.self].cols
          /\ DictOf(heap', objs', "result") = DictOf(heap, objs, last'.self)]_vars

\* C8: every stored coordinate of a matrix is within its rows and cols.
C8_BoundsInvariant ==
    \A s \in Slots :
        Bound(s) =>
            \A k \in DOMAIN DictOf(heap, objs, s) :
                /\ 0 <= k[1] /\ k[1] < objs[s].rows
                /\ 0 <= k[2] /\ k[2] < objs[s].cols

\* C9: add, subtract and multiply leave the objects of their operands as
\* they were, and the result shares no dict with another object: a
\* set_element on one object changes the entries of no other.
C9_OperandsUnchangedNoAliasing ==
    [][/\ (Called("add") \/ Called("subtract") \/ Called("multiply"))
          => \A s \in {last'.self, last'.other} \ {"result"} :
                 /\ objs'[s] = objs[s]
                 /\ DictOf(heap', objs', s) = DictOf(heap, objs, s)
       /\ ((Called("add") \/ Called("subtract") \/ Called("multiply"))
           /\ last'.status = "ok")
          => \A s \in Slots \ {"result"} :
                 objs'[s].matrix # objs'["result"].matrix
       /\ Called("set_element")
          => \A s \in Slots \ {last'.self} :
                 /\ objs'[s] = objs[s]
                 /\ Bound(s) => DictOf(heap', objs', s) = DictOf(heap, objs, s)]_vars

\* a set_element on the result of an arithmetic call, made while an operand
\* with stored entries is alive
C9_Witness ==
    /\ last.op = "set_element" /\ last.self = "result"
    /\ Bound("matrix1") /\ DictOf(heap, objs, "matrix1") # EmptyDict
    /\ ResultDict # DictOf(heap, objs, "matrix1")

\* the integers on the lines of the input file
InputIntegers ==
    {int(input_file[i]).val :
        i \in {j \in 1..Len(input_file) : int(input_file[j]).ok}}

\* C10: the output lists, one per line and in strictly increasing order,
\* exactly the integers that appear on some line of the input; lines that are
\* no integers are skipped and the lines after them are still read.
C10_OutputIsSortedSetOfInput ==
    pc = "done"
        => /\ \A i \in 1..Len(output_file) : int(output_file[i]).ok
           /\ \A i \in 1..(Len(output_file) - 1) :
                  int(output_file[i]).val < int(output_file[i + 1]).val
           /\ {int(output_file[i]).val : i \in 1..Len(output_file)} = InputIntegers

=============================================================================
